---- MODULE Spec2Model ----
(***************************************************************************)
(* FinderComment.write_uri of zuppa/methods/findercomment.py: writing a    *)
(* Zotero select link into the Finder comment of one file.                 *)
(*                                                                         *)
(* Strings are sequences of one-character strings, so that Python's "in"   *)
(* and re.sub work on characters.  The Finder comment of the file is a     *)
(* record: missing (AppleScript's "missing value") or a text.              *)
(* URIs are Zotero select links; they hold no backslash, so re.sub's       *)
(* replacement template stands for itself.                                 *)
(***************************************************************************)
EXTENDS Integers, Sequences, FiniteSets, TLC

\* Number of pieces an initial Finder comment is put together from.
MaxPieces == 3

\* ------------------------------------------------------------------------
\* Strings
\* ------------------------------------------------------------------------

\* The literal 'zotero://' the pattern of line 99 starts with.
ZoteroScheme == <<"z", "o", "t", "e", "r", "o", ":", "/", "/">>

\* The literal 'zotero://select' of line 96.
SelectPrefix == ZoteroScheme \o <<"s", "e", "l", "e", "c", "t">>

UriA == SelectPrefix \o <<"/", "A">>
UriB == SelectPrefix \o <<"/", "B">>
UriC == SelectPrefix \o <<"/", "C">>

\* The values of the parameter "uri".
Uris == {UriA, UriC}

\* What an existing Finder comment is made of: links, blanks, note text and
\* a bare scheme.
Pieces == {UriA, UriB, <<" ">>, <<"n">>, ZoteroScheme}

RECURSIVE Texts(_)
Texts(n) ==
  IF n = 0 THEN {<< >>}
  ELSE LET T == Texts(n - 1) IN T \cup {t \o p : t \in T, p \in Pieces}

\* The Finder comment of a file: "missing value" or a text.
Missing == [missing |-> TRUE, text |-> << >>]
Str(t) == [missing |-> FALSE, text |-> t]

InitialComments == {Missing} \cup {Str(t) : t \in Texts(MaxPieces)}

\* Python truthiness of the value get_comments returns: None and '' are false.
Truthy(c) == ~c.missing /\ c.text # << >>

\* s[i:].startswith(p), 1-based i.
StartsAt(s, i, p) ==
  /\ i + Len(p) - 1 <= Len(s)
  /\ \A k \in 1..Len(p) : s[i + k - 1] = p[k]

\* Python's  sub in s  on strings.
Contains(sub, s) == \E i \in 1..(Len(s) + 1) : StartsAt(s, i, sub)

\* \s of Python's re on the characters used here.
IsSpace(ch) == ch = " "

\* Greedy \S+ : the last index of the run of non-whitespace that holds j.
RECURSIVE NonSpaceRunEnd(_, _)
NonSpaceRunEnd(s, j) ==
  IF j < Len(s) /\ ~IsSpace(s[j + 1]) THEN NonSpaceRunEnd(s, j + 1) ELSE j

\* The last index of a match of (zotero://\S+) that starts at i, 0 if none.
MatchAt(s, i) ==
  LET j == i + Len(ZoteroScheme) IN
  IF StartsAt(s, i, ZoteroScheme) /\ j <= Len(s) /\ ~IsSpace(s[j])
  THEN NonSpaceRunEnd(s, j)
  ELSE 0

RECURSIVE SubFrom(_, _, _)
SubFrom(repl, s, i) ==
  IF i > Len(s) THEN << >>
  ELSE LET e == MatchAt(s, i) IN
       IF e # 0 THEN repl \o SubFrom(repl, s, e + 1)
       ELSE <<s[i]>> \o SubFrom(repl, s, i + 1)

\* A plausible slip: repl and string in each other's place.
re_sub_swapped(repl, string) == SubFrom(string, repl, 1)

\* re.sub('(zotero://\S+)', repl, string): count is 0, every match is replaced.
re_sub(repl, string) == SubFrom(repl, string, 1)

\* ------------------------------------------------------------------------
\* State
\* ------------------------------------------------------------------------

VARIABLES
  comment,    \* the Finder comment of the file
  pc,         \* where write_uri is: idle, l92, l93, l104, l107, l110, done, raised
  uri,        \* parameter uri
  dry_run,    \* parameter dry_run
  overwrite,  \* parameter overwrite
  comments,   \* local variable comments
  calls,      \* the _FINDER_SCRIPTS.call()s of this invocation, in order
  msgs,       \* the inform()/warn() messages of this invocation, in order
  error,      \* the call whose exception is propagating, "none" if none
  comment0,   \* the Finder comment when this invocation began
  prev        \* the invocation before this one

vars == <<comment, pc, uri, dry_run, overwrite, comments, calls, msgs, error,
          comment0, prev>>

NoPrev == [status |-> "none", uri |-> << >>, dry_run |-> FALSE,
           overwrite |-> FALSE, msgs |-> << >>, comment0 |-> Missing]

Init ==
  /\ comment \in InitialComments
  /\ pc = "idle"
  /\ uri = << >>
  /\ dry_run = FALSE
  /\ overwrite = FALSE
  /\ comments = Missing
  /\ calls = << >>
  /\ msgs = << >>
  /\ error = "none"
  /\ comment0 = Missing
  /\ prev = NoPrev

\* The four messages, named as the outcomes they announce.
Inform(outcome) == [tone |-> "inform", outcome |-> outcome]
Warn(outcome) == [tone |-> "warn", outcome |-> outcome]

\* ------------------------------------------------------------------------
\* write_uri, step by step
\* ------------------------------------------------------------------------

\* Entry, and the test of line 90.
write_uri(u, d, o) ==
  /\ pc = "idle"
  /\ uri' = u
  /\ dry_run' = d
  /\ overwrite' = o
  /\ comments' = Missing
  /\ calls' = << >>
  /\ msgs' = << >>
  /\ error' = "none"
  /\ comment0' = comment
  /\ pc' = IF ~o THEN "l92" ELSE "l104"
  /\ UNCHANGED <<comment, prev>>

\* Line 92, the call returning.
get_comments ==
  /\ pc = "l92"
  /\ calls' = Append(calls, "get_comments")
  /\ comments' = comment
  /\ pc' = "l93"
  /\ UNCHANGED <<comment, uri, dry_run, overwrite, msgs, error, comment0, prev>>

\* Line 92, the call raising.
get_comments_raises ==
  /\ pc = "l92"
  /\ calls' = Append(calls, "get_comments")
  /\ error' = "get_comments"
  /\ pc' = "raised"
  /\ UNCHANGED <<comment, uri, dry_run, overwrite, comments, msgs, comment0, prev>>

\* A plausible slip: no return after the message of line 94.
already_present_no_return ==
  /\ pc = "l93"
  /\ Truthy(comments) /\ Contains(uri, comments.text)
  /\ msgs' = Append(msgs, Inform("AlreadyPresent"))
  /\ pc' = "l110"
  /\ UNCHANGED <<comment, uri, dry_run, overwrite, comments, calls, error,
                 comment0, prev>>

\* Lines 93-95.
already_present ==
  /\ pc = "l93"
  /\ Truthy(comments) /\ Contains(uri, comments.text)
  /\ msgs' = Append(msgs, Inform("AlreadyPresent"))
  /\ pc' = "done"
  /\ UNCHANGED <<comment, uri, dry_run, overwrite, comments, calls, error,
                 comment0, prev>>

\* A plausible slip: the result of re.sub is not kept.
replace_existing_result_dropped ==
  /\ pc = "l93"
  /\ ~(Truthy(comments) /\ Contains(uri, comments.text))
  /\ Truthy(comments) /\ Contains(SelectPrefix, comments.text)
  /\ msgs' = Append(msgs, Warn("Replaced"))
  /\ pc' = "l110"
  /\ UNCHANGED <<comment, uri, dry_run, overwrite, comments, calls, error,
                 comment0, prev>>

\* Lines 96-99.
replace_existing ==
  /\ pc = "l93"
  /\ ~(Truthy(comments) /\ Contains(uri, comments.text))
  /\ Truthy(comments) /\ Contains(SelectPrefix, comments.text)
  /\ msgs' = Append(msgs, Warn("Replaced"))
  /\ comments' = Str(re_sub(uri, comments.text))
  /\ pc' = "l110"
  /\ UNCHANGED <<comment, uri, dry_run, overwrite, calls, error, comment0, prev>>

\* A plausible slip: the link put in front of the text that was there.
write_new_prepending ==
  /\ pc = "l93"
  /\ ~(Truthy(comments) /\ Contains(uri, comments.text))
  /\ ~(Truthy(comments) /\ Contains(SelectPrefix, comments.text))
  /\ msgs' = Append(msgs, Inform("Prepended"))
  /\ comments' = Str(uri \o <<" ">> \o comments.text)
  /\ pc' = "l110"
  /\ UNCHANGED <<comment, uri, dry_run, overwrite, calls, error, comment0, prev>>

\* Lines 100-102.
write_new ==
  /\ pc = "l93"
  /\ ~(Truthy(comments) /\ Contains(uri, comments.text))
  /\ ~(Truthy(comments) /\ Contains(SelectPrefix, comments.text))
  /\ msgs' = Append(msgs, Inform("Prepended"))
  /\ comments' = Str(uri)
  /\ pc' = "l110"
  /\ UNCHANGED <<comment, uri, dry_run, overwrite, calls, error, comment0, prev>>

\* A plausible slip: the comment is never cleared.
clear_comments_left_out ==
  /\ pc = "l104"
  /\ pc' = "l107"
  /\ UNCHANGED <<comment, uri, dry_run, overwrite, comments, calls, msgs, error,
                 comment0, prev>>

\* Lines 104-106, the call (if made) returning.
clear_comments ==
  /\ pc = "l104"
  /\ IF ~dry_run
     THEN /\ calls' = Append(calls, "clear_comments")
          /\ comment' = Missing
     ELSE UNCHANGED <<calls, comment>>
  /\ pc' = "l107"
  /\ UNCHANGED <<uri, dry_run, overwrite, comments, msgs, error, comment0, prev>>

\* A plausible slip: the exception of the call is swallowed.
clear_comments_raises_swallowed ==
  /\ pc = "l104"
  /\ ~dry_run
  /\ calls' = Append(calls, "clear_comments")
  /\ error' = "clear_comments"
  /\ pc' = "l107"
  /\ UNCHANGED <<comment, uri, dry_run, overwrite, comments, msgs, comment0, prev>>

\* Lines 104-106, the call raising.
clear_comments_raises ==
  /\ pc = "l104"
  /\ ~dry_run
  /\ calls' = Append(calls, "clear_comments")
  /\ error' = "clear_comments"
  /\ pc' = "raised"
  /\ UNCHANGED <<comment, uri, dry_run, overwrite, comments, msgs, comment0, prev>>

\* A plausible slip: warn() where the code calls inform().
overwrite_warn ==
  /\ pc = "l107"
  /\ msgs' = Append(msgs, Warn("ForcedOverwrite"))
  /\ comments' = Str(uri)
  /\ pc' = "l110"
  /\ UNCHANGED <<comment, uri, dry_run, overwrite, calls, error, comment0, prev>>

\* Lines 107-108.
overwrite_inform ==
  /\ pc = "l107"
  /\ msgs' = Append(msgs, Inform("ForcedOverwrite"))
  /\ comments' = Str(uri)
  /\ pc' = "l110"
  /\ UNCHANGED <<comment, uri, dry_run, overwrite, calls, error, comment0, prev>>

\* A plausible slip: the test of dry_run left out.
set_comments_ignoring_dry_run ==
  /\ pc = "l110"
  /\ calls' = Append(calls, "set_comments")
  /\ comment' = comments
  /\ pc' = "done"
  /\ UNCHANGED <<uri, dry_run, overwrite, comments, msgs, error, comment0, prev>>

\* A plausible slip: the comment cleared before every write.
set_comments_clearing_first ==
  /\ pc = "l110"
  /\ IF ~dry_run
     THEN /\ calls' = calls \o <<"clear_comments", "set_comments">>
          /\ comment' = comments
     ELSE UNCHANGED <<calls, comment>>
  /\ pc' = "done"
  /\ UNCHANGED <<uri, dry_run, overwrite, comments, msgs, error, comment0, prev>>

\* Lines 110-112, the call (if made) returning.
set_comments ==
  /\ pc = "l110"
  /\ IF ~dry_run
     THEN /\ calls' = Append(calls, "set_comments")
          /\ comment' = comments
     ELSE UNCHANGED <<calls, comment>>
  /\ pc' = "done"
  /\ UNCHANGED <<uri, dry_run, overwrite, comments, msgs, error, comment0, prev>>

\* Lines 110-112, the call raising.
set_comments_raises ==
  /\ pc = "l110"
  /\ ~dry_run
  /\ calls' = Append(calls, "set_comments")
  /\ error' = "set_comments"
  /\ pc' = "raised"
  /\ UNCHANGED <<comment, uri, dry_run, overwrite, comments, msgs, comment0, prev>>

\* The caller has the result (a return or an exception) and may call again.
Return ==
  /\ pc \in {"done", "raised"}
  /\ prev' = [status |-> pc, uri |-> uri, dry_run |-> dry_run,
              overwrite |-> overwrite, msgs |-> msgs, comment0 |-> comment0]
  /\ pc' = "idle"
  /\ error' = "none"
  /\ UNCHANGED <<comment, uri, dry_run, overwrite, comments, calls, msgs,
                 comment0>>

Next ==
  \/ \E u \in Uris, d \in BOOLEAN, o \in BOOLEAN : write_uri(u, d, o)
  \/ get_comments
  \/ get_comments_raises
  \/ already_present
  \/ replace_existing
  \/ write_new
  \/ clear_comments
  \/ clear_comments_raises
  \/ overwrite_inform
  \/ set_comments
  \/ set_comments_raises
  \/ Return

Spec == Init /\ [][Next]_vars

\* ------------------------------------------------------------------------
\* Properties
\* ------------------------------------------------------------------------

Count(name) == Cardinality({i \in 1..Len(calls) : calls[i] = name})

Completed == pc = "done"

\* This invocation and the one before it had the same uri and overwrite.
SameRequestAsPrev ==
  /\ prev.status = "done"
  /\ prev.uri = uri
  /\ prev.overwrite = overwrite

\* C1: a dry run issues no clear_comments and no set_comments and leaves the
\* Finder comment as it was, still reads the comment when overwrite is false,
\* and reports what the run with dry_run false reports on the same comment
\* (checked on a real run that follows a dry run of the same request).
C1_DryRunMutatesNothing ==
  /\ (Completed /\ dry_run) =>
       /\ Count("clear_comments") = 0
       /\ Count("set_comments") = 0
       /\ comment = comment0
       /\ (~overwrite => calls = <<"get_comments">>)
       /\ Len(msgs) = 1
  /\ (Completed /\ ~dry_run /\ SameRequestAsPrev /\ prev.dry_run
        /\ prev.comment0 = comment0) => msgs = prev.msgs

\* A real run of a replacement has completed right after its dry run.
C1_Witness ==
  /\ Completed /\ ~dry_run /\ ~overwrite
  /\ SameRequestAsPrev /\ prev.dry_run /\ prev.comment0 = comment0
  /\ msgs = <<Warn("Replaced")>>
  /\ comment # comment0

\* C2: with overwrite false, when the comment read contains uri, no
\* set_comments and no clear_comments is issued, the comment stays as it was
\* and the outcome is AlreadyPresent.
C2_AlreadyPresentWritesNothing ==
  (Completed /\ ~overwrite /\ Truthy(comment0) /\ Contains(uri, comment0.text)) =>
    /\ Count("set_comments") = 0
    /\ Count("clear_comments") = 0
    /\ comment = comment0
    /\ msgs = <<Inform("AlreadyPresent")>>

\* A real run has completed on a comment that holds uri among other text.
C2_Witness ==
  /\ Completed /\ ~overwrite /\ ~dry_run
  /\ Contains(uri, comment0.text) /\ comment0.text # uri

\* C3: with overwrite true and dry_run false, clear_comments is issued before
\* set_comments, the comment ends as uri alone and the outcome is
\* ForcedOverwrite, whatever the comment was.
C3_ForcedOverwriteClearsThenWrites ==
  (Completed /\ overwrite /\ ~dry_run) =>
    /\ calls = <<"clear_comments", "set_comments">>
    /\ comment = Str(uri)
    /\ Len(msgs) = 1 /\ msgs[1].outcome = "ForcedOverwrite"

\* A forced overwrite has completed on a comment that already held uri.
C3_Witness ==
  /\ Completed /\ overwrite /\ ~dry_run
  /\ Contains(uri, comment0.text) /\ comment0.text # uri

\* C4: the second of two successive real runs with the same uri and overwrite
\* false reports AlreadyPresent, issues no set_comments and leaves the comment
\* as the first run left it.
C4_SecondRunIsNoOp ==
  (Completed /\ ~dry_run /\ ~overwrite /\ SameRequestAsPrev /\ ~prev.dry_run) =>
    /\ msgs = <<Inform("AlreadyPresent")>>
    /\ Count("set_comments") = 0
    /\ comment = comment0

\* The second run has completed after a first run that replaced another link
\* inside a longer comment.
C4_Witness ==
  /\ Completed /\ ~dry_run /\ ~overwrite /\ SameRequestAsPrev /\ ~prev.dry_run
  /\ prev.msgs = <<Warn("Replaced")>>
  /\ comment.text # uri

\* The text the claim C5 expects: t with only the first run of non-whitespace
\* that starts with 'zotero://select' replaced by u.
RECURSIVE ReplaceFirstToken(_, _, _)
ReplaceFirstToken(u, t, i) ==
  IF i > Len(t) THEN << >>
  ELSE IF StartsAt(t, i, SelectPrefix)
       THEN u \o SubSeq(t, NonSpaceRunEnd(t, i) + 1, Len(t))
       ELSE <<t[i]>> \o ReplaceFirstToken(u, t, i + 1)

\* C5: in the Replaced branch the new comment is the old one with only the
\* first link replaced by uri, later links untouched; the outcome is Replaced.
C5_OnlyFirstTokenReplaced ==
  (Completed /\ ~overwrite /\ ~dry_run /\ Truthy(comment0)
     /\ ~Contains(uri, comment0.text) /\ Contains(SelectPrefix, comment0.text)) =>
    /\ comment = Str(ReplaceFirstToken(uri, comment0.text, 1))
    /\ msgs = <<Warn("Replaced")>>

C6_WitnessMissing ==
  /\ Completed /\ ~overwrite /\ ~dry_run /\ comment0 = Missing

\* C7: an invocation issues at most one get_comments, one clear_comments and
\* one set_comments, set_comments last, and never both get_comments and
\* clear_comments.
C7_AtMostOneCallOfEach ==
  /\ Count("get_comments") <= 1
  /\ Count("clear_comments") <= 1
  /\ Count("set_comments") <= 1
  /\ \A i \in 1..Len(calls) : calls[i] = "set_comments" => i = Len(calls)
  /\ ~(Count("get_comments") = 1 /\ Count("clear_comments") = 1)

\* An invocation has issued two calls.
C7_Witness == Completed /\ Len(calls) = 2 /\ calls[2] = "set_comments"

\* The tone the table of outcomes gives each outcome.
TableTone(outcome) ==
  IF outcome \in {"AlreadyPresent", "Prepended"} THEN "inform" ELSE "warn"

\* C8 as stated: a completed invocation has emitted exactly one message, of
\* the tone of the table: warning for Replaced and for ForcedOverwrite.
C8_ToneAsInTable ==
  Completed => /\ Len(msgs) = 1
               /\ msgs[1].tone = TableTone(msgs[1].outcome)

\* C8 amended: a completed invocation has emitted exactly one message:
\* informational for AlreadyPresent, Prepended and ForcedOverwrite, warning
\* for Replaced.
C8_ToneAsEmitted ==
  Completed => /\ Len(msgs) = 1
               /\ msgs[1].tone =
                    (IF msgs[1].outcome = "Replaced" THEN "warn" ELSE "inform")
               /\ (msgs[1].outcome = "ForcedOverwrite") = overwrite

\* A forced overwrite has completed.
C8_Witness == Completed /\ overwrite /\ Len(msgs) = 1

\* What holds of every failed call: it is the last call of the invocation,
\* issued once, and the invocation has ended with its exception.
FailurePropagates ==
  /\ pc = "raised"
  /\ calls # << >> /\ calls[Len(calls)] = error
  /\ Count(error) = 1

\* C9 as stated: a failed call ends the invocation with no retry and no
\* further call, and the invocation has emitted no message, whichever call
\* failed.
C9_FailureEmitsNoMessage ==
  error # "none" => (FailurePropagates /\ msgs = << >>)

\* C9 amended: a failed call ends the invocation with no retry and no further
\* call; the invocation has emitted no message when get_comments or
\* clear_comments failed, and the one message of its branch when set_comments
\* failed.
C9_FailureAfterMessageOnlyForWrite ==
  error # "none" =>
    /\ FailurePropagates
    /\ (error \in {"get_comments", "clear_comments"} => msgs = << >>)
    /\ (error = "set_comments" => Len(msgs) = 1)

\* set_comments has failed after the message of a replacement.
C9_Witness ==
  /\ error = "set_comments" /\ pc = "raised"
  /\ msgs = <<Warn("Replaced")>>

\* clear_comments has failed.
C9_WitnessClear == error = "clear_comments" /\ pc = "raised" /\ msgs = << >>

\* C10: after a real run that completes, the comment contains uri.
C10_CommentContainsUri ==
  (Completed /\ ~dry_run) => (~comment.missing /\ Contains(uri, comment.text))

\* A replacement has completed after an invocation with another uri.
C10_Witness ==
  /\ Completed /\ ~dry_run /\ ~overwrite
  /\ prev.status = "done" /\ prev.uri # uri /\ ~prev.dry_run
  /\ msgs = <<Warn("Replaced")>>

====
